---- MODULE Spec2Model ----
(***************************************************************************)
(* r10_field_maps.py: main() configures the GIS environment, transform()   *)
(* rewrites R10Points.csv into orthometric_R10Points.csv with one geoid18  *)
(* request per row, and XYTableToPoint/check_status build the point        *)
(* dataset.                                                                *)
(*                                                                         *)
(* Text (a Python str) is a sequence of one-character strings.  A Python   *)
(* float is an integer counting units of 10^-FracDigits.                   *)
(***************************************************************************)
EXTENDS Integers, Sequences, FiniteSets, TLC

\* Bounds of the model.
MaxRows == 2
FracDigits == 3

\* Python's None, kept apart from every text.
None == <<"None">>

RECURSIVE Pow10(_)
Pow10(k) == IF k = 0 THEN 1 ELSE 10 * Pow10(k - 1)

Scale == Pow10(FracDigits)

DigitChars == <<"0", "1", "2", "3", "4", "5", "6", "7", "8", "9">>

IsDigit(c) == \E i \in 1..10 : DigitChars[i] = c

DigitVal(c) == (CHOOSE i \in 1..10 : DigitChars[i] = c) - 1

IsSpace(c) == c \in {" ", "\t", "\n", "\r"}

AllDigits(s) == \A i \in 1..Len(s) : IsDigit(s[i])

RECURSIVE DigitsVal(_)
DigitsVal(s) ==
    IF s = <<>> THEN 0
    ELSE 10 * DigitsVal(SubSeq(s, 1, Len(s) - 1)) + DigitVal(s[Len(s)])

RECURSIVE IntStr(_)
IntStr(n) ==
    IF n < 10 THEN <<DigitChars[n + 1]>>
    ELSE IntStr(n \div 10) \o <<DigitChars[(n % 10) + 1]>>

RECURSIVE FixedDigits(_, _)
FixedDigits(n, w) ==
    IF w = 0 THEN <<>>
    ELSE FixedDigits(n \div 10, w - 1) \o <<DigitChars[(n % 10) + 1]>>

RECURSIVE StripZeros(_)
StripZeros(s) ==
    IF Len(s) > 1 /\ s[Len(s)] = "0"
    THEN StripZeros(SubSeq(s, 1, Len(s) - 1))
    ELSE s

RECURSIVE LStrip(_)
LStrip(s) == IF s # <<>> /\ IsSpace(Head(s)) THEN LStrip(Tail(s)) ELSE s

RECURSIVE RStrip(_)
RStrip(s) ==
    IF s # <<>> /\ IsSpace(s[Len(s)])
    THEN RStrip(SubSeq(s, 1, Len(s) - 1))
    ELSE s

Abs(v) == IF v < 0 THEN -v ELSE v

NotAFloat == [ok |-> FALSE, v |-> 0]

\* float() on the digits before and after the point, kept to FracDigits
\* places.
FloatOfDigits(ip, fp, neg, valid) ==
    IF valid /\ AllDigits(ip) /\ AllDigits(fp) /\ Len(ip) + Len(fp) > 0
    THEN [ok |-> TRUE,
          v |-> (IF neg THEN 0 - 1 ELSE 1)
                  * (DigitsVal(ip) * Scale
                       + DigitsVal(SubSeq(fp \o [i \in 1..FracDigits |-> "0"], 1, FracDigits)))]
    ELSE NotAFloat

\* float() on the text after the sign, dots being where its points are.
FloatOfUnsigned(body, dots, neg, valid) ==
    IF dots = {}
    THEN FloatOfDigits(body, <<>>, neg, valid)
    ELSE FloatOfDigits(SubSeq(body, 1, (CHOOSE i \in dots : TRUE) - 1),
                       SubSeq(body, (CHOOSE i \in dots : TRUE) + 1, Len(body)),
                       neg, valid /\ Cardinality(dots) = 1)

FloatOfBody(body, neg, valid) ==
    FloatOfUnsigned(body, {i \in 1..Len(body) : body[i] = "."}, neg, valid)

\* float() on the text without its surrounding whitespace.
FloatOfStripped(t, valid) ==
    IF t # <<>> /\ t[1] \in {"-", "+"}
    THEN FloatOfBody(Tail(t), t[1] = "-", valid)
    ELSE FloatOfBody(t, FALSE, valid)

\* float(s): surrounding whitespace is dropped, then an optional sign and
\* decimal digits with at most one point; None and any other text raise.
Float(s) == FloatOfStripped(RStrip(LStrip(s)), s # None)

\* str(x) of a float, as an f-string or csv.writer renders it: the shortest
\* decimal, with at least one fractional digit.
Repr(v) ==
    (IF v < 0 THEN <<"-">> ELSE <<>>)
        \o IntStr(Abs(v) \div Scale)
        \o <<".">>
        \o StripZeros(FixedDigits(Abs(v) % Scale, FracDigits))

\* q hundredths as text.
Hundredths(q, neg) ==
    (IF neg THEN <<"-">> ELSE <<>>)
        \o IntStr(q \div 100) \o <<".">> \o FixedDigits(q % 100, 2)

\* a / unit rounded to the nearest integer, ties to even.
RoundHalfEven(a, unit) ==
    IF 2 * (a % unit) > unit \/ (2 * (a % unit) = unit /\ (a \div unit) % 2 = 1)
    THEN (a \div unit) + 1
    ELSE a \div unit

\* f'{x:0.2f}': two fractional digits, rounded to nearest, ties to even.
Format2f(v) == Hundredths(RoundHalfEven(Abs(v), Pow10(FracDigits - 2)), v < 0)


\* str.split(sep): the pieces between occurrences of sep, empty ones kept.
RECURSIVE SplitOn(_, _)
SplitOn(s, sep) ==
    LET hits == {i \in 1..Len(s) : s[i] = sep}
    IN  IF hits = {} THEN <<s>>
        ELSE LET i == CHOOSE k \in hits : \A j \in hits : k <= j
             IN  <<SubSeq(s, 1, i - 1)>> \o SplitOn(SubSeq(s, i + 1, Len(s)), sep)

\* str.split(): the maximal runs of non-whitespace characters.
RECURSIVE SplitWs(_)
SplitWs(s) ==
    LET t == LStrip(s)
        ws == {i \in 1..Len(t) : IsSpace(t[i])}
        e == IF ws = {} THEN Len(t) + 1
             ELSE CHOOSE k \in ws : \A j \in ws : k <= j
    IN  IF t = <<>> THEN <<>>
        ELSE <<SubSeq(t, 1, e - 1)>> \o SplitWs(SubSeq(t, e, Len(t)))

\* An HTML document is the sequence of its elements in document order; an
\* element has a tag and children, each child a text node or a nested tag
\* (s is then the nested tag's own .string).
Text(s) == [kind |-> "text", s |-> s]

Tag(s) == [kind |-> "tag", s |-> s]

Element(tag, children) == [tag |-> tag, children |-> children]

\* soup.pre: the first <pre> element of the document; NoElement is None.
NoElement == Element("None", <<>>)

FirstPre(html) ==
    LET hits == {i \in 1..Len(html) : html[i].tag = "pre"}
    IN  IF hits = {} THEN NoElement
        ELSE html[CHOOSE k \in hits : \A j \in hits : k <= j]

\* Tag.string: the text of an element with exactly one child, else None.
String(el) == IF Len(el.children) = 1 THEN el.children[1].s ELSE None

ParseFailed == [ok |-> FALSE, n |-> 0, e |-> 0]

\* n = float(data[-2]); e = float(data[-1])
ParsePair(fn, fe) ==
    IF fn.ok /\ fe.ok THEN [ok |-> TRUE, n |-> fn.v, e |-> fe.v] ELSE ParseFailed

ParseData(data) ==
    IF Len(data) >= 2
    THEN ParsePair(Float(data[Len(data) - 1]), Float(data[Len(data)]))
    ELSE ParseFailed

\* The parser reading lines[2], one line too early.
ParseThirdLine(lines) ==
    IF Len(lines) >= 3 THEN ParseData(SplitWs(lines[3])) ELSE ParseFailed

\* data = lines[3].split()
ParseLines(lines) ==
    IF Len(lines) >= 4 THEN ParseData(SplitWs(lines[4])) ELSE ParseFailed

\* lines = n.split('\n')
ParseString(n) == IF n = None THEN ParseFailed ELSE ParseLines(SplitOn(n, "\n"))

\* n = soup.pre.string
ParsePre(pre) == IF pre = NoElement THEN ParseFailed ELSE ParseString(String(pre))

\* parse_geoid18_response(html): (n, e) from the last two tokens of lines[3]
\* of soup.pre.string; an AttributeError, IndexError or ValueError is
\* ok = FALSE.
parse_geoid18_response(html) == ParsePre(FirstPre(html))

\* ---- Service responses the model draws from ----

tU == <<"U">>
t40 == <<"4", "0">>
t105 == <<"1", "0", "5">>
tN1 == <<"-", "1", "6", ".", "0", "2", "2">>
tN2 == <<"-", "1", "5", ".", "5">>
tE1 == <<"0", ".", "0", "3", "8">>
tE2 == <<"0", ".", "0", "5">>
tX == <<"x">>

RECURSIVE Join(_, _)
Join(parts, sep) ==
    IF parts = <<>> THEN <<>>
    ELSE IF Len(parts) = 1 THEN parts[1]
    ELSE parts[1] \o sep \o Join(Tail(parts), sep)

\* A page of the calculator: the lines of its <pre> block, each a sequence
\* of tokens, and the shape of the document around them.
\*   "results"  <h2>..</h2><pre>text</pre>      (a successful response)
\*   "two_pre"  <pre>text</pre><pre>other</pre>
\*   "markup"   <pre>text<b>..</b></pre>        (.string is None)
\*   "no_pre"   <h2>..</h2>                     (an error page)
\*   "binary"   bytes that are not UTF-8
\*   "unreachable"  no response at all: requests.get raises
Page(shape, lines) == [shape |-> shape, lines |-> lines]

PreText(page) ==
    Join([i \in 1..Len(page.lines) |-> <<" ">> \o Join(page.lines[i], <<" ", " ">>)],
         <<"\n">>)

Render(page) ==
    CASE page.shape = "results" ->
            <<Element("h2", <<Text(tN2)>>), Element("pre", <<Text(PreText(page))>>)>>
      [] page.shape = "two_pre" ->
            <<Element("pre", <<Text(PreText(page))>>), Element("pre", <<Text(tN2 \o <<" ">> \o tE2)>>)>>
      [] page.shape = "markup" ->
            <<Element("pre", <<Text(PreText(page)), Tag(tU)>>)>>
      [] OTHER -> <<Element("h2", <<Text(PreText(page))>>)>>

\* Header lines of the block, as the calculator prints them, and trailers.
HeadA == <<<<>>, <<tU, tU>>, <<tU, tN2, tE2>>>>
HeadB == <<<<tE2, t40>>, <<>>, <<tU>>>>
TailA == <<>>
TailB == <<<<tU, tN2, tE1>>>>

ResultPage(head, toks, tail) == Page("results", head \o <<toks>> \o tail)

\* Successful responses: the same N with two error estimates, and another N.
GoodPages ==
    { ResultPage(HeadA, <<tU, t40, t105, tN1, tE1>>, TailA),
      ResultPage(HeadB, <<tU, t40, t105, tN1, tE2>>, TailB),
      Page("two_pre", HeadA \o <<<<tN2, tE1>>>>) }

\* Responses parse_geoid18_response cannot read.
BadPages ==
    { ResultPage(HeadA, <<t40, tN1, tX>>, TailA),
      ResultPage(HeadA, <<tE1>>, TailB),
      Page("results", <<<<tU>>, <<tN1, tE1>>>>),
      Page("markup", HeadA \o <<<<tU, tN1, tE1>>>>),
      Page("no_pre", HeadA \o <<<<tU, tN1, tE1>>>>),
      Page("binary", HeadA \o <<<<tU, tN1, tE1>>>>) }

Pages == GoodPages \cup BadPages

Unreachable == Page("unreachable", <<>>)

\* The bytes of a response: "binary" content is not UTF-8.
Content(page) == [utf8 |-> page.shape # "binary", doc |-> Render(page)]

\* ---- The input and output tables ----

\* The header row of R10Points.csv.
InFieldnames ==
    <<"Name", "Ortho_Measured", "ReceiverName", "HorizontalAccuracy",
      "VerticalAccuracy", "Latitude", "Longitude", "Elevation",
      "NumberSatellites", "FixTime">>

\* fieldnames of the csv.DictWriter.
fieldnames ==
    <<"Name", "Ortho_Measured", "ReceiverName", "HorizontalAccuracy",
      "VerticalAccuracy", "Latitude", "Longitude", "Elevation",
      "NumberSatellites", "FixTime", "Measured_Ortho", "Calculated_Ortho">>

Range(f) == {f[i] : i \in DOMAIN f}

\* Rows as csv.reader yields them: the list of a line's fields.
RowWest ==
    << <<"A">>, <<"2", ".", "5">>, <<"R">>, <<"1">>, <<"2">>,
       <<"4", ".", "2", "5", "0">>, <<"-", "5", ".", "5">>,
       <<"9", ".", "1", "2", "5">>, <<"7">>, <<"t">> >>

\* RowWest on the other side of the prime meridian.
RowEast == [RowWest EXCEPT ![7] = <<"5", ".", "5">>]

\* A southern point whose line ends before FixTime.
RowTrail ==
    SubSeq([RowWest EXCEPT ![2] = <<"1", "0">>, ![6] = <<"-", "4", ".", "2", "5">>], 1, 9)

\* A line that ends before Latitude.
RowShort == SubSeq(RowWest, 1, 5)

\* A line with a non-numeric Elevation and an eleventh field.
RowBadElevation == [RowWest EXCEPT ![8] = <<"x">>] \o << <<"z">> >>

RowBadOrtho == [RowWest EXCEPT ![2] = <<>>]

RowBlank == <<>>

RowKinds ==
    {RowWest, RowEast, RowTrail, RowShort, RowBadElevation, RowBadOrtho, RowBlank}

\* csv.DictReader's row: the fields under the header's names, None for a
\* name the line has no field for, the surplus fields under the key None.
DictRow(names, line) ==
    LET d == [k \in Range(names) |->
                LET i == CHOOSE j \in 1..Len(names) : names[j] = k
                IN  IF i <= Len(line) THEN line[i] ELSE None]
    IN  IF Len(line) > Len(names)
        THEN d @@ ("None" :> SubSeq(line, Len(names) + 1, Len(line)))
        ELSE d

\* dict.get(key)
Get(d, k) == IF k \in DOMAIN d THEN d[k] ELSE None

\* A reader that takes a line without fields for the end of the input.
NextLineStopsAtBlank(rows, p) ==
    IF p + 1 <= Len(rows) /\ rows[p + 1] # <<>> THEN p + 1 ELSE 0

\* DictReader.__next__ skips the lines without fields: the index of the
\* next line with fields after pos, 0 when the reader is exhausted.
NextLine(rows, p) ==
    LET rest == {i \in (p + 1)..Len(rows) : rows[i] # <<>>}
    IN  IF rest = {} THEN 0 ELSE CHOOSE k \in rest : \A j \in rest : k <= j

\* rh, the rod height of 1.55 m.
rh == Float(<<"1", ".", "5", "5">>).v

\* The query string of the request postprocess_geoid18 sends.
geoid18_url(lat, long) ==
    [PGM |-> "intg", MODEL |-> "14", LAT |-> Repr(lat), LONG |-> Repr(long),
     longitude_direction |-> "2"]

\* postprocess_geoid18 taking element [1] of the parsed pair for N.
HMinusError(r, h) == [ok |-> r.ok, n |-> r.e, e |-> r.e, H |-> h - r.e]

\* orthometric_height = h - n, n element [0] of the parsed pair.
HMinusN(r, h) == [ok |-> r.ok, n |-> r.n, e |-> r.e, H |-> h - r.n]

\* postprocess_geoid18 from the response on: decode, parse, H = h - N.
orthometric_height(content, h) ==
    HMinusN(IF content.utf8 THEN parse_geoid18_response(content.doc) ELSE ParseFailed, h)

\* The longitude passed on with its sign.
LatLongElevSigned(lat, long, elev) ==
    [ok |-> lat.ok /\ long.ok /\ elev.ok,
     lat |-> lat.v, long |-> long.v, elev |-> elev.v]

\* lat, abs(long) and elev of a row.
LatLongElev(lat, long, elev) ==
    [ok |-> lat.ok /\ long.ok /\ elev.ok,
     lat |-> lat.v, long |-> Abs(long.v), elev |-> elev.v]

\* The floats transform() takes from a row before it sends the request.
RowFloats(row) ==
    LatLongElev(Float(Get(row, "Latitude")), Float(Get(row, "Longitude")),
                Float(Get(row, "Elevation")))

\* The rod height added instead of taken off.
LessRodHeightAdded(m) == [ok |-> m.ok, v |-> m.v + rh]

\* float(...) - rh
LessRodHeight(m) == [ok |-> m.ok, v |-> m.v - rh]

measured_ortho(row) == LessRodHeight(Float(Get(row, "Ortho_Measured")))

\* row_dict of transform().
row_dict(row, measured, calculated) ==
    [k \in Range(fieldnames) |->
        IF k = "Measured_Ortho" THEN measured
        ELSE IF k = "Calculated_Ortho" THEN Format2f(calculated)
        ELSE Get(row, k)]

\* DictWriter.writerow: the values in fieldnames order, a float as its
\* str(), None as the empty field.
writerow(d) ==
    [i \in 1..Len(fieldnames) |->
        LET k == fieldnames[i]
        IN  IF k = "Measured_Ortho" THEN Repr(d[k])
            ELSE IF d[k] = None THEN <<>> ELSE d[k]]

\* ---- The run of main() ----

VARIABLES
    pc,        \* where main() is: "setup", "transform", "loop", "request",
               \* "generate", "check_status", "done", "fault"
    env,       \* arcpy.env
    inFile,    \* Data/R10Points.csv
    outFile,   \* Data/orthometric_R10Points.csv
    handles,   \* the open file objects
    pos,       \* lines of inFile the reader has consumed
    net,       \* requests sent and not yet answered
    sent,      \* every request sent, with the line it was sent for
    served,    \* every page the service answered with
    genCalls,  \* calls of arcpy.management.XYTableToPoint
    result,    \* status of the Result object, NoResult before the call
    messages,  \* the status check_status left its loop at, NoResult before
    geoid,     \* what the last call of postprocess_geoid18 computed
    fault      \* the step an exception escaped from, "" if none

vars ==
    <<pc, env, inFile, outFile, handles, pos, net, sent, served, genCalls,
      result, messages, geoid, fault>>

NoResult == 0 - 1

RECURSIVE SeqsUpTo(_, _)
SeqsUpTo(S, n) ==
    IF n = 0 THEN {<<>>}
    ELSE LET shorter == SeqsUpTo(S, n - 1)
         IN  shorter \cup {Append(q, x) : q \in shorter, x \in S}

Table(header, rows) == [exists |-> TRUE, header |-> header, rows |-> rows]

NoFile == [exists |-> FALSE, header |-> <<>>, rows |-> <<>>]

\* What an earlier run left in orthometric_R10Points.csv.
StaleOutput == Table(fieldnames, << [i \in 1..Len(fieldnames) |-> <<"o">>] >>)

InputFiles == {NoFile} \cup {Table(InFieldnames, r) : r \in SeqsUpTo(RowKinds, MaxRows)}

Init ==
    /\ pc = "setup"
    /\ env = [workspace |-> "", overwriteOutput |-> FALSE, outputCoordinateSystem |-> ""]
    /\ inFile \in InputFiles
    /\ outFile \in {NoFile, StaleOutput}
    /\ handles = {}
    /\ pos = 0
    /\ net = <<>>
    /\ sent = <<>>
    /\ served = <<>>
    /\ genCalls = 0
    /\ result = NoResult
    /\ messages = NoResult
    /\ geoid = [ok |-> FALSE, n |-> 0, e |-> 0, H |-> 0]
    /\ fault = ""

\* The loop body under `try: ... except Exception: continue`.
RaiseCaughtInLoop(step) ==
    IF step \in {"row", "requests.get", "response", "measured_ortho"}
    THEN pc' = "loop" /\ fault' = "" /\ handles' = handles
    ELSE pc' = "fault" /\ fault' = step /\ handles' = {}

\* An exception nothing catches: the with blocks close the files on the
\* way out and the interpreter ends the run.
Raise(step) ==
    /\ pc' = "fault"
    /\ fault' = step
    /\ handles' = {}

\* main() without its call of setup_env.
SetupEnvSkipped ==
    /\ pc = "setup"
    /\ pc' = "transform"
    /\ UNCHANGED <<env, inFile, outFile, handles, pos, net, sent, served, genCalls,
                   result, messages, geoid, fault>>

\* main() up to transform(): setup_env sets the workspace and the overwrite
\* option, then the spatial reference of usgs_dem_05m, which
\* arcpy.Describe may fail to find.
SetupEnv ==
    /\ pc = "setup"
    /\ \/ /\ env' = [workspace |-> "R10FieldMaps.gdb", overwriteOutput |-> TRUE,
                     outputCoordinateSystem |-> "usgs_dem_05m"]
          /\ pc' = "transform"
          /\ UNCHANGED <<handles, fault>>
       \/ /\ env' = [workspace |-> "R10FieldMaps.gdb", overwriteOutput |-> TRUE,
                     outputCoordinateSystem |-> ""]
          /\ Raise("setup_env")
    /\ UNCHANGED <<inFile, outFile, pos, net, sent, served, genCalls, result, messages,
                   geoid>>

\* The input opened first: a missing input leaves the output untouched.
OpenFilesInputFirst ==
    /\ pc = "transform"
    /\ \/ /\ Raise("open_output")
          /\ UNCHANGED outFile
       \/ /\ ~inFile.exists
          /\ Raise("open_input")
          /\ UNCHANGED outFile
       \/ /\ inFile.exists
          /\ outFile' = Table(fieldnames, <<>>)
          /\ handles' = {"f", "point_reader"}
          /\ pc' = "loop"
          /\ UNCHANGED fault
    /\ UNCHANGED <<env, inFile, pos, net, sent, served, genCalls, result, messages,
                   geoid>>

\* transform() up to its loop: open(new_csv_path, 'w') truncates the output,
\* writeheader() writes the header, then open(csv_path, 'r').
OpenFiles ==
    /\ pc = "transform"
    /\ \/ /\ Raise("open_output")
          /\ UNCHANGED outFile
       \/ /\ ~inFile.exists
          /\ outFile' = Table(fieldnames, <<>>)
          /\ Raise("open_input")
       \/ /\ inFile.exists
          /\ outFile' = Table(fieldnames, <<>>)
          /\ handles' = {"f", "point_reader"}
          /\ pc' = "loop"
          /\ UNCHANGED fault
    /\ UNCHANGED <<env, inFile, pos, net, sent, served, genCalls, result, messages,
                   geoid>>

\* A request that is sent again after the first attempt.
SendRequestRetried(url, line) ==
    /\ net' = Append(net, url)
    /\ sent' = sent \o <<[url |-> url, line |-> line], [url |-> url, line |-> line]>>

\* requests.get(url): one GET, sent once.
SendRequest(url, line) ==
    /\ net' = Append(net, url)
    /\ sent' = Append(sent, [url |-> url, line |-> line])

CurRow == DictRow(inFile.header, inFile.rows[pos])

\* The loop body from the floats of line nxt to requests.get.
ReadFields(nxt, f) ==
    \/ /\ ~f.ok
       /\ pos' = nxt
       /\ Raise("row")
       /\ UNCHANGED <<net, sent>>
    \/ /\ f.ok
       /\ pos' = nxt
       /\ SendRequest(geoid18_url(f.lat, f.long), nxt)
       /\ pc' = "request"
       /\ UNCHANGED <<handles, fault>>

\* The reader at line nxt, 0 for the end of the input.
ReadLine(nxt) ==
    \/ /\ nxt = 0
       /\ pos' = Len(inFile.rows)
       /\ handles' = {}
       /\ pc' = "generate"
       /\ UNCHANGED <<net, sent, fault>>
    \/ /\ nxt # 0
       /\ ReadFields(nxt, RowFloats(DictRow(inFile.header, inFile.rows[nxt])))

\* One turn of `for row in csv_dict` up to requests.get, or the end of the
\* loop, which closes both files.
ReadRow ==
    /\ pc = "loop"
    /\ ReadLine(NextLine(inFile.rows, pos))
    /\ UNCHANGED <<env, inFile, outFile, served, genCalls, result, messages, geoid>>

\* The loop body from the response on: calc is what postprocess_geoid18
\* computes from the page, meas the measured height of the row.
Respond(page, row, calc, meas) ==
    /\ served' = Append(served, page)
    /\ IF page = Unreachable
       THEN Raise("requests.get") /\ UNCHANGED <<outFile, geoid>>
       ELSE IF ~calc.ok
       THEN Raise("response") /\ UNCHANGED <<outFile, geoid>>
       ELSE IF ~meas.ok
       THEN Raise("measured_ortho") /\ geoid' = calc /\ UNCHANGED outFile
       ELSE /\ outFile' = [outFile EXCEPT !.rows =
                    Append(@, writerow(row_dict(row, meas.v, calc.H)))]
            /\ geoid' = calc
            /\ pc' = "loop"
            /\ UNCHANGED <<handles, fault>>

\* requests.get returns or raises; then the rest of the loop body: parse,
\* H = h - N, the measured height, writerow.
Receive ==
    /\ pc = "request"
    /\ net # <<>>
    /\ net' = Tail(net)
    /\ \E page \in Pages \cup {Unreachable} :
        Respond(page, CurRow,
                orthometric_height(Content(page), RowFloats(CurRow).elev),
                measured_ortho(CurRow))
    /\ UNCHANGED <<env, inFile, pos, sent, genCalls, result, messages>>

\* arcpy.management.XYTableToPoint: raises, or returns a Result.
GeneratePoints ==
    /\ pc = "generate"
    /\ genCalls' = genCalls + 1
    /\ \/ /\ Raise("XYTableToPoint")
          /\ UNCHANGED result
       \/ /\ result' \in 0..10
          /\ pc' = "check_status"
          /\ UNCHANGED <<handles, fault>>
    /\ UNCHANGED <<env, inFile, outFile, pos, net, sent, served, messages, geoid>>

\* The loop leaving one status early, at Executing.
WaitingBelowExecuting(status) == status < 3

\* The condition of check_status's loop.
Waiting(status) == status < 4

\* check_status: `while result.status < 4: ... time.sleep(0.2)`
CheckWait ==
    /\ pc = "check_status"
    /\ Waiting(result)
    /\ UNCHANGED vars

\* check_status past its loop: result.getMessages() and return.
CheckReturn ==
    /\ pc = "check_status"
    /\ ~Waiting(result)
    /\ messages' = result
    /\ pc' = "done"
    /\ UNCHANGED <<env, inFile, outFile, handles, pos, net, sent, served, genCalls,
                   result, geoid, fault>>

\* The statuses a geoprocessing job moves through, by status_code's names.
NextStatus(s) ==
    CASE s = 0 -> {1}
      [] s = 1 -> {2, 3}
      [] s = 2 -> {3}
      [] s = 3 -> {4, 5, 6, 7}
      [] s = 7 -> {8}
      [] s = 9 -> {10}
      [] s = 10 -> {}
      [] OTHER -> {9}

\* The job advances while check_status polls it.
JobAdvance ==
    /\ pc = "check_status"
    /\ \E s \in NextStatus(result) : result' = s
    /\ UNCHANGED <<pc, env, inFile, outFile, handles, pos, net, sent, served, genCalls,
                   messages, geoid, fault>>

Next ==
    \/ SetupEnv
    \/ OpenFiles
    \/ ReadRow
    \/ Receive
    \/ GeneratePoints
    \/ CheckWait
    \/ CheckReturn
    \/ JobAdvance

Spec == Init /\ [][Next]_vars

\* The interpreter keeps running check_status's loop.
LiveSpec == Spec /\ WF_vars(CheckReturn)

\* ---- Properties ----

\* The data rows of the input: its lines that hold fields.
DataLines == SelectSeq(inFile.rows, LAMBDA l : l # <<>>)

\* How many data rows the reader has consumed.
Consumed == Len(SelectSeq(SubSeq(inFile.rows, 1, pos), LAMBDA l : l # <<>>))

\* This run has truncated the output file.
TransformStarted ==
    \/ pc \in {"loop", "request", "generate", "check_status", "done"}
    \/ fault \in {"open_input", "row", "requests.get", "response", "measured_ortho",
                  "XYTableToPoint"}

\* transform() has returned.
TransformReturned ==
    \/ pc \in {"generate", "check_status", "done"}
    \/ fault = "XYTableToPoint"

\* Column positions in the input and output tables.
ColOrthoMeasured == 2
ColLatitude == 6
ColLongitude == 7
ColElevation == 8
ColMeasuredOrtho == 11
ColCalculatedOrtho == 12

\* The undulation and the error estimate a page prints: the last two tokens
\* of the fourth line of its block.
PrintedN(page) == Float(page.lines[4][Len(page.lines[4]) - 1]).v

PrintedE(page) == Float(page.lines[4][Len(page.lines[4])]).v

\* C1: once transform() has returned, the output holds as many data rows as
\* the input has, under the header of the ten input columns in their fixed
\* order followed by Measured_Ortho and Calculated_Ortho.
C1_RowCountAndHeader ==
    TransformReturned =>
        /\ Len(outFile.rows) = Len(DataLines)
        /\ outFile.header = InFieldnames \o <<"Measured_Ortho", "Calculated_Ortho">>
        /\ \A i \in 1..Len(outFile.rows) : Len(outFile.rows[i]) = Len(outFile.header)

C1_Witness ==
    /\ pc = "done"
    /\ Len(outFile.rows) = 1
    /\ inFile.rows = <<RowBlank, RowTrail>>

\* C2: when the response parses to undulation N, postprocess_geoid18 returns
\* h - N for the row's ellipsoid height h, whatever the error estimate is.
C2_OrthometricIsHMinusN ==
    (served # <<>> /\ served[Len(served)] \in GoodPages) =>
        geoid.H = Float(inFile.rows[sent[Len(sent)].line][ColElevation]).v
                    - PrintedN(served[Len(served)])

C2_Witness ==
    /\ served # <<>>
    /\ served[Len(served)] \in GoodPages
    /\ PrintedE(served[Len(served)]) # Float(tE1).v
    /\ geoid.H = Float(<<"2", "5", ".", "1", "4", "7">>).v

\* C3: every row written carries in Measured_Ortho its own input
\* Ortho_Measured less the rod height 1.55.
C3_MeasuredOrtho ==
    TransformStarted =>
        \A i \in 1..Len(outFile.rows) :
            /\ Float(outFile.rows[i][ColMeasuredOrtho]).ok
            /\ Float(outFile.rows[i][ColMeasuredOrtho]).v
                 = Float(DataLines[i][ColOrthoMeasured]).v - 155 * Pow10(FracDigits - 2)

C3_Witness ==
    /\ TransformStarted
    /\ Len(outFile.rows) = 2
    /\ outFile.rows[1][ColMeasuredOrtho] = <<"0", ".", "9", "5">>
    /\ outFile.rows[2][ColMeasuredOrtho] = <<"8", ".", "4", "5">>
    /\ served[1] # served[2]

\* The page shapes whose first <pre> element holds the page's lines as one
\* text.
HasBlock(page) == page.shape \in {"results", "two_pre"}

Numeric(tokens) == {i \in 1..Len(tokens) : Float(tokens[i]).ok}

\* What the last call of parse_geoid18_response returned, against the page
\* it was given.
ParsedAsPrinted ==
    /\ fault # "response"
    /\ geoid.ok
    /\ geoid.n = PrintedN(served[Len(served)])
    /\ geoid.e = PrintedE(served[Len(served)])

\* C4 as stated: a block of at least four lines whose fourth line has at
\* least two numeric tokens parses to the last two tokens of that line.
C4_AnyTwoNumericTokens ==
    (/\ served # <<>>
     /\ HasBlock(served[Len(served)])
     /\ Len(served[Len(served)].lines) >= 4
     /\ Cardinality(Numeric(served[Len(served)].lines[4])) >= 2)
        => ParsedAsPrinted

\* The first <pre> element holds one text of at least four lines whose
\* fourth line ends in two tokens float() accepts.
Parsable(page) ==
    /\ HasBlock(page)
    /\ Len(page.lines) >= 4
    /\ Len(page.lines[4]) >= 2
    /\ {Len(page.lines[4]) - 1, Len(page.lines[4])} \subseteq Numeric(page.lines[4])

\* C4, amended: when the first <pre> element holds a single text of at least
\* four lines and the last two tokens of its fourth line are numeric,
\* parse_geoid18_response returns (second-to-last token, last token) of that
\* line, whatever the other lines and tokens are.
C4_LastTwoTokensNumeric ==
    (served # <<>> /\ Parsable(served[Len(served)])) => ParsedAsPrinted

C4_Witness ==
    /\ served # <<>>
    /\ served[Len(served)] = ResultPage(HeadB, <<tU, t40, t105, tN1, tE2>>, TailB)
    /\ geoid.n = Float(tN1).v
    /\ geoid.e = Float(tE2).v

\* The fields of a line that transform() converts with float().
NumericAt(line, col) == Len(line) >= col /\ Float(line[col]).ok

\* The index in the input of its i-th data row.
DataLineIndex(i) ==
    LET at == {k \in 1..Len(inFile.rows) :
                /\ inFile.rows[k] # <<>>
                /\ Cardinality({j \in 1..k : inFile.rows[j] # <<>>}) = i}
    IN  IF at = {} THEN 0 ELSE CHOOSE k \in at : TRUE

FaultsBeforeGenerate ==
    {"setup_env", "open_output", "open_input", "row", "requests.get", "response",
     "measured_ortho"}

C5_Inv ==
    /\ (pc = "fault") <=> (fault # "")
    \* a failure of setup or of transform() never reaches XYTableToPoint
    /\ fault \in FaultsBeforeGenerate => genCalls = 0 /\ result = NoResult
    \* a row with a missing or non-numeric Latitude, Longitude or Elevation
    \* is the last one read, and no request is sent for it
    /\ \A i \in 1..pos :
        (/\ inFile.rows[i] # <<>>
         /\ ~(/\ NumericAt(inFile.rows[i], ColLatitude)
              /\ NumericAt(inFile.rows[i], ColLongitude)
              /\ NumericAt(inFile.rows[i], ColElevation)))
            => fault = "row" /\ i = pos /\ \A k \in DOMAIN sent : sent[k].line # i
    \* a missing response or an unreadable one is the last one served
    /\ \A i \in DOMAIN served :
        ~Parsable(served[i]) =>
            fault \in {"requests.get", "response"} /\ i = Len(served)
    \* a row answered with a readable response and a non-numeric
    \* Ortho_Measured is the last one read
    /\ \A i \in DOMAIN served :
        (Parsable(served[i]) /\ ~NumericAt(inFile.rows[sent[i].line], ColOrthoMeasured))
            => fault = "measured_ortho" /\ i = Len(served) /\ sent[i].line = pos
    \* whatever is written came from a row and a response without failure
    /\ TransformStarted =>
        \A i \in 1..Len(outFile.rows) :
            /\ \A c \in {ColLatitude, ColLongitude, ColElevation, ColOrthoMeasured} :
                    NumericAt(DataLines[i], c)
            /\ Parsable(served[i])
    \* the missing input file
    /\ (TransformStarted /\ ~inFile.exists) => fault = "open_input"

C6_OneRequestPerRowInOrder ==
    /\ Len(net) <= 1
    /\ (Len(net) = 1) <=> (pc = "request")
    /\ \A i \in DOMAIN sent : sent[i].line = DataLineIndex(i)
    /\ Len(sent) <= Len(served) + 1
    /\ TransformStarted => Len(sent) <= Len(outFile.rows) + 1
    /\ pc = "request" => Len(sent) = Len(outFile.rows) + 1 /\ Len(served) = Len(outFile.rows)
    /\ TransformReturned => Len(sent) = Len(DataLines)

C6_Witness ==
    /\ pc = "request"
    /\ Len(sent) = 2
    /\ Len(outFile.rows) = 1
    /\ Len(served) = 1

EnvConfigured ==
    /\ env.workspace # ""
    /\ env.overwriteOutput
    /\ env.outputCoordinateSystem # ""

\* C7: setup, then the transform loop, then the dataset: the environment is
\* configured before a file is opened, a row read or a request sent;
\* XYTableToPoint is called at most once, only after every data row is
\* written and both files are closed; check_status runs on its result, and a
\* run that ends normally has made exactly that one call.
C7_SetupTransformGenerate ==
    /\ (handles # {} \/ pos > 0 \/ sent # <<>> \/ TransformStarted) => EnvConfigured
    /\ genCalls <= 1
    /\ genCalls = 1 =>
        /\ TransformReturned
        /\ handles = {}
        /\ net = <<>>
        /\ pos = Len(inFile.rows)
        /\ Len(outFile.rows) = Len(DataLines)
        /\ Len(served) = Len(DataLines)
    /\ TransformReturned /\ pc # "generate" => genCalls = 1
    /\ result # NoResult => genCalls = 1
    /\ pc = "check_status" => result # NoResult
    /\ pc = "done" => genCalls = 1 /\ messages # NoResult

C7_Witness ==
    /\ pc = "done"
    /\ genCalls = 1
    /\ Len(outFile.rows) = 2
    /\ EnvConfigured

\* check_status neither returns while the status is below 4 nor raises once
\* it is 4 or more.
C8_Inv ==
    /\ messages # NoResult => messages >= 4 /\ pc = "done" /\ fault = ""
    /\ pc = "done" => messages = result

\* C8: check_status returns only on a status of 4 or more, returns the
\* messages without raising for each such status, and returns once the
\* status has reached 4 or more.
C8_CheckStatusWaits ==
    /\ []C8_Inv
    /\ [][(pc = "check_status" /\ pc' # "check_status")
            => (result >= 4 /\ pc' = "done" /\ messages' = result)]_vars
    /\ ((pc = "check_status" /\ result >= 4) ~> (pc = "done"))

C8_Witness ==
    /\ pc = "done"
    /\ messages = 8

\* The row transform() writes for data row i of the input and the i-th page
\* served.
Transformed(i) ==
    LET row == DictRow(InFieldnames, DataLines[i])
    IN  writerow(row_dict(row, measured_ortho(row).v,
                          orthometric_height(Content(served[i]), RowFloats(row).elev).H))

C9_Inv ==
    \* before the output is opened it is what the earlier run left
    /\ ~TransformStarted => outFile \in {NoFile, StaleOutput}
    \* afterwards it is the header and the transformed first k data rows
    /\ TransformStarted =>
        /\ Len(outFile.rows) <= Len(DataLines)
        /\ Len(outFile.rows) <= Len(served)
        /\ outFile = Table(fieldnames, [i \in 1..Len(outFile.rows) |-> Transformed(i)])
    \* k counts the rows read, less the one being processed or the one that
    \* failed
    /\ pc \in {"loop", "generate", "check_status", "done"} \/ fault = "XYTableToPoint"
        => Len(outFile.rows) = Consumed
    /\ pc = "request" \/ fault \in {"row", "requests.get", "response", "measured_ortho"}
        => Len(outFile.rows) = Consumed - 1
    \* the header is written before the input is opened
    /\ "point_reader" \in handles => "f" \in handles /\ outFile.header = fieldnames
    /\ fault = "open_input" => outFile = Table(fieldnames, <<>>)

\* C9: from the header on, the output is the header and the transformed
\* first k data rows in input order; it is truncated before the input is
\* opened, so an aborted run leaves the header and those k rows in place of
\* the earlier output; the input is never written.
C9_OutputIsPrefix == []C9_Inv /\ [][inFile' = inFile]_vars

C9_Witness ==
    /\ fault = "response"
    /\ Len(outFile.rows) = 1
    /\ Consumed = 2
    /\ outFile.rows[1][ColCalculatedOrtho] = <<"2", "4", ".", "6", "2">>

\* Two lines that differ in the sign of Longitude and in nothing else.
MirrorLines(a, b) ==
    /\ Len(a) = Len(b)
    /\ \A c \in 1..Len(a) : c # ColLongitude => a[c] = b[c]
    /\ Float(a[ColLongitude]).v = 0 - Float(b[ColLongitude]).v
    /\ a[ColLongitude] # b[ColLongitude]

\* C10: the request carries the row's Latitude with its sign and the
\* absolute value of its Longitude, always with longitude_direction=2; rows
\* that differ only in the sign of Longitude send the same request and, for
\* the same undulation, get the same Calculated_Ortho; the Longitude written
\* is the input text.
C10_AbsoluteLongitude ==
    /\ \A i \in DOMAIN sent :
        LET line == inFile.rows[sent[i].line]
        IN  /\ sent[i].url.LAT = Repr(Float(line[ColLatitude]).v)
            /\ sent[i].url.LONG = Repr(Abs(Float(line[ColLongitude]).v))
            /\ sent[i].url.LONG[1] # "-"
            /\ sent[i].url.longitude_direction = "2"
    /\ TransformStarted =>
        /\ \A i \in 1..Len(outFile.rows) :
                outFile.rows[i][ColLongitude] = DataLines[i][ColLongitude]
        /\ \A i, j \in 1..Len(outFile.rows) :
                MirrorLines(DataLines[i], DataLines[j]) =>
                    /\ sent[i].url = sent[j].url
                    /\ PrintedN(served[i]) = PrintedN(served[j]) =>
                            outFile.rows[i][ColCalculatedOrtho]
                                = outFile.rows[j][ColCalculatedOrtho]

C10_Witness ==
    /\ TransformStarted
    /\ Len(outFile.rows) = 2
    /\ MirrorLines(DataLines[1], DataLines[2])
    /\ served[1] # served[2]
    /\ PrintedN(served[1]) = PrintedN(served[2])
    /\ outFile.rows[1][ColLongitude] = <<"-", "5", ".", "5">>
    /\ sent[1].url.LONG = <<"5", ".", "5">>

====
